---- MODULE Spec2Model ----
(***************************************************************************)
(* Model of examples/server.rs: a BlueZ pairing agent.  main registers the *)
(* agent, consumes agent1::Message events one at a time and, for           *)
(* RequestConfirmation, runs launch_ui (a blocking window event loop)      *)
(* whose channel handler writes the operator's decision to a oneshot       *)
(* channel that main reads afterwards.                                     *)
(***************************************************************************)
EXTENDS Integers, Sequences, FiniteSets, TLC

\* ---- bounds ----
MaxRequests == 2    \* events the event source delivers in one run
MaxClicks == 2      \* button events delivered to one surface

\* ---- agent1::Message variants (match arms of main) ----
ReplyBoolKinds == {"RequestAuthorization", "RequestConfirmation"}
ReplyOptKinds == {"RequestPasskey", "RequestPinCode"}
NoReplyKinds == {"AuthorizeService", "Cancel", "DisplayPasskey", "DisplayPinCode", "Release"}
ReplySlotKinds == ReplyBoolKinds \cup ReplyOptKinds
MessageKinds == ReplySlotKinds \cup NoReplyKinds

\* the component-level enum Message of the surface (buttons)
Buttons == {"Confirm", "Cancel"}
\* enum AppMessage
AppMessages == {"ConfirmPasskey", "Cancel"}

NoRequest == [id |-> 0, kind |-> "none"]

\* <&'static str>::from(bluez_zbus::agent1::Capability::DisplayYesNo)
Capability == "DisplayYesNo"

VARIABLES
    pc,          \* position of main
    result,      \* "running", "ok" (Ok(())), "err" (Err returned), "panic"
    registered,  \* bus side: the agent is registered with the agent manager
    capability,  \* bus side: capability the agent was registered with
    calls,       \* agent-manager calls made so far, in order, with outcome
    loopEntered, \* receiver.recv() has been polled at least once
    requests,    \* kinds of the events taken from receiver, in order
    cur,         \* the message being handled
    replies,     \* response.send calls: [id, kind, value, ok]
    surfaces,    \* number of surfaces opened (launch_ui calls)
    channels,    \* number of oneshot channels created
    surfaceOpen, \* launch_ui's window exists and its loop is running
    agent_tx,    \* the Option<oneshot::Sender<bool>> captured by the handler
    chan,        \* oneshot channel content: "empty", "true", "false", "closed"
    app_channel, \* calloop channel of AppMessage, pending messages
    window_tx,   \* pending WindowMessage CloseRequested count
    is_exited,   \* app.is_exited
    pressed,     \* buttons pressed on the current surface, in order
    closeReqs    \* channel content at each call of exit(), all surfaces
vars == <<pc, result, registered, capability, calls, loopEntered, requests, cur, replies,
          surfaces, channels, surfaceOpen, agent_tx, chan, app_channel,
          window_tx, is_exited, pressed, closeReqs>>

busVars == <<registered, capability, calls>>
loopVars == <<loopEntered, requests, cur, replies>>
uiVars == <<surfaces, channels, surfaceOpen, agent_tx, chan, app_channel,
            window_tx, is_exited, pressed, closeReqs>>

Init ==
    /\ pc = "connect"
    /\ result = "running"
    /\ registered = FALSE
    /\ capability = "none"
    /\ calls = <<>>
    /\ loopEntered = FALSE
    /\ requests = <<>>
    /\ cur = NoRequest
    /\ replies = <<>>
    /\ surfaces = 0
    /\ channels = 0
    /\ surfaceOpen = FALSE
    /\ agent_tx = "none"
    /\ chan = "closed"
    /\ app_channel = <<>>
    /\ window_tx = 0
    /\ is_exited = FALSE
    /\ pressed = <<>>
    /\ closeReqs = <<>>

\* main returns Err(..) through `?`
ReturnErr ==
    /\ pc' = "done"
    /\ result' = "err"

\* an unwrap() on Err/None: the thread running main unwinds
Panic ==
    /\ pc' = "done"
    /\ result' = "panic"

\* one call on the AgentManager1 proxy; the bus applies it only when it succeeds
ManagerCall(name, ok) ==
    /\ calls' = Append(calls, [name |-> name, ok |-> ok])
    /\ registered' = IF ~ok THEN registered
                     ELSE IF name = "RegisterAgent" THEN TRUE
                     ELSE IF name = "UnregisterAgent" THEN FALSE
                     ELSE registered
    /\ capability' = IF ~ok THEN capability
                     ELSE IF name = "RegisterAgent" THEN Capability
                     ELSE IF name = "UnregisterAgent" THEN "none"
                     ELSE capability

\* zbus::Connection::system().await?, object_server().at(..).await?,
\* AgentManager1Proxy::new(..).await?
Startup ==
    /\ pc \in {"connect", "at", "proxy"}
    /\ \E ok \in BOOLEAN :
         IF ok
         THEN /\ pc' = CASE pc = "connect" -> "at"
                         [] pc = "at" -> "proxy"
                         [] OTHER -> "register"
              /\ UNCHANGED result
         ELSE ReturnErr
    /\ UNCHANGED busVars
    /\ UNCHANGED loopVars
    /\ UNCHANGED uiVars

\* a register_agent whose failure is not propagated
RegisterAgentIgnoreErr ==
    /\ pc = "register"
    /\ \E ok \in BOOLEAN : ManagerCall("RegisterAgent", ok)
    /\ pc' = "reqdefault"
    /\ UNCHANGED result
    /\ UNCHANGED loopVars
    /\ UNCHANGED uiVars

\* bluez.register_agent(..).await?
RegisterAgent ==
    /\ pc = "register"
    /\ \E ok \in BOOLEAN :
         /\ ManagerCall("RegisterAgent", ok)
         /\ IF ok
            THEN pc' = "reqdefault" /\ UNCHANGED result
            ELSE ReturnErr
    /\ UNCHANGED loopVars
    /\ UNCHANGED uiVars

\* a request_default_agent failure path that forgets the unregister
RequestDefaultAgentNoUndo ==
    /\ pc = "reqdefault"
    /\ \E ok \in BOOLEAN :
         /\ ManagerCall("RequestDefaultAgent", ok)
         /\ IF ok
            THEN pc' = "recv" /\ UNCHANGED result
            ELSE ReturnErr
    /\ UNCHANGED loopVars
    /\ UNCHANGED uiVars

\* a failure path that unregisters but does not return the error
RequestDefaultAgentFallThrough ==
    /\ pc = "reqdefault"
    /\ \E ok \in BOOLEAN :
         IF ok
         THEN ManagerCall("RequestDefaultAgent", TRUE)
         ELSE \E undone \in BOOLEAN :
                 /\ calls' = calls \o <<[name |-> "RequestDefaultAgent", ok |-> FALSE],
                                        [name |-> "UnregisterAgent", ok |-> undone]>>
                 /\ registered' = IF undone THEN FALSE ELSE registered
                 /\ capability' = IF undone THEN "none" ELSE capability
    /\ pc' = "recv"
    /\ UNCHANGED result
    /\ UNCHANGED loopVars
    /\ UNCHANGED uiVars

\* if let Err(why) = bluez.request_default_agent(..).await {
\*     _ = bluez.unregister_agent(..).await; Err(why)?; }
RequestDefaultAgent ==
    /\ pc = "reqdefault"
    /\ \E ok \in BOOLEAN :
         IF ok
         THEN /\ ManagerCall("RequestDefaultAgent", TRUE)
              /\ pc' = "recv"
              /\ UNCHANGED result
         ELSE /\ \E undone \in BOOLEAN :
                   /\ calls' = calls \o <<[name |-> "RequestDefaultAgent", ok |-> FALSE],
                                          [name |-> "UnregisterAgent", ok |-> undone]>>
                   /\ registered' = IF undone THEN FALSE ELSE registered
                   /\ capability' = IF undone THEN "none" ELSE capability
              /\ ReturnErr
    /\ UNCHANGED loopVars
    /\ UNCHANGED uiVars

\* while let Some(msg) = receiver.recv().await
Recv ==
    /\ pc = "recv"
    /\ loopEntered' = TRUE
    /\ \/ /\ Len(requests) < MaxRequests
          /\ \E k \in MessageKinds :
               /\ requests' = Append(requests, k)
               /\ cur' = [id |-> Len(requests) + 1, kind |-> k]
          /\ pc' = "match"
       \/ /\ pc' = "unregister"       \* None: the event source closed
          /\ UNCHANGED <<requests, cur>>
    /\ UNCHANGED <<result, replies>>
    /\ UNCHANGED busVars
    /\ UNCHANGED uiVars

\* a send whose failure is propagated instead of discarded
ResponseSendChecked(value) ==
    \E ok \in BOOLEAN :
        /\ replies' = Append(replies, [id |-> cur.id, kind |-> cur.kind,
                                       value |-> value, ok |-> ok])
        /\ IF ok THEN pc' = "recv" /\ UNCHANGED result ELSE ReturnErr

\* _ = response.send(value): fails when the receiver is gone, result discarded
ResponseSend(value) ==
    \E ok \in BOOLEAN :
        /\ replies' = Append(replies, [id |-> cur.id, kind |-> cur.kind,
                                       value |-> value, ok |-> ok])
        /\ pc' = "recv"
        /\ UNCHANGED result

\* an arm that drops the reply slot without sending
ImmediateReplySkip ==
    /\ pc = "match"
    /\ cur.kind \in {"RequestAuthorization"} \cup ReplyOptKinds
    /\ pc' = "recv"
    /\ UNCHANGED <<result, replies>>
    /\ UNCHANGED <<loopEntered, requests, cur>>
    /\ UNCHANGED busVars
    /\ UNCHANGED uiVars

\* arms that answer every immediate request with true
ImmediateReplyAllTrue ==
    /\ pc = "match"
    /\ cur.kind \in {"RequestAuthorization"} \cup ReplyOptKinds
    /\ ResponseSend("true")
    /\ UNCHANGED <<loopEntered, requests, cur>>
    /\ UNCHANGED busVars
    /\ UNCHANGED uiVars

\* arms where RequestAuthorization is declined like the passkey requests
ImmediateReplyAuthFalse ==
    /\ pc = "match"
    /\ cur.kind \in {"RequestAuthorization"} \cup ReplyOptKinds
    /\ ResponseSend(IF cur.kind = "RequestAuthorization" THEN "false" ELSE "None")
    /\ UNCHANGED <<loopEntered, requests, cur>>
    /\ UNCHANGED busVars
    /\ UNCHANGED uiVars

\* arms RequestAuthorization (send(true)), RequestPasskey and RequestPinCode (send(None))
ImmediateReply ==
    /\ pc = "match"
    /\ cur.kind \in {"RequestAuthorization"} \cup ReplyOptKinds
    /\ ResponseSend(IF cur.kind = "RequestAuthorization" THEN "true" ELSE "None")
    /\ UNCHANGED <<loopEntered, requests, cur>>
    /\ UNCHANGED busVars
    /\ UNCHANGED uiVars

\* arms where Release ends the loop
NoReplyRelease ==
    /\ pc = "match"
    /\ cur.kind \in NoReplyKinds
    /\ pc' = IF cur.kind = "Release" THEN "unregister" ELSE "recv"
    /\ UNCHANGED <<result, replies>>
    /\ UNCHANGED <<loopEntered, requests, cur>>
    /\ UNCHANGED busVars
    /\ UNCHANGED uiVars

\* arms AuthorizeService, Cancel, DisplayPasskey, DisplayPinCode, Release: {}
NoReply ==
    /\ pc = "match"
    /\ cur.kind \in NoReplyKinds
    /\ pc' = "recv"
    /\ UNCHANGED <<result, replies>>
    /\ UNCHANGED <<loopEntered, requests, cur>>
    /\ UNCHANGED busVars
    /\ UNCHANGED uiVars

\* arm RequestConfirmation, up to the first await:
\* let (agent_tx, agent_rx) = oneshot::channel();
\* let connection = zbus::Connection::system().await?;
ConfirmationConnect ==
    /\ pc = "match"
    /\ cur.kind = "RequestConfirmation"
    /\ channels' = channels + 1
    /\ \E ok \in BOOLEAN :
         IF ok
         THEN /\ pc' = "get_device"
              /\ chan' = "empty"
              /\ UNCHANGED result
         ELSE /\ ReturnErr            \* both channel ends are dropped
              /\ chan' = "closed"
    /\ UNCHANGED <<surfaces, surfaceOpen, agent_tx, app_channel, window_tx,
                   is_exited, pressed, closeReqs>>
    /\ UNCHANGED busVars
    /\ UNCHANGED loopVars

\* bluez_zbus::get_device(&connection, device).await.unwrap()
GetDevice ==
    /\ pc = "get_device"
    /\ \E ok \in BOOLEAN :
         IF ok
         THEN pc' = "name" /\ UNCHANGED result /\ UNCHANGED chan
         ELSE Panic /\ chan' = "closed"
    /\ UNCHANGED <<surfaces, channels, surfaceOpen, agent_tx, app_channel,
                   window_tx, is_exited, pressed, closeReqs>>
    /\ UNCHANGED busVars
    /\ UNCHANGED loopVars

\* device.device.name().await.unwrap() evaluated as an argument, then the
\* call of launch_ui up to its loop: channel(), XdgWindow::open_blocking,
\* insert_source with the handler that owns agent_tx
LaunchUi ==
    /\ pc = "name"
    /\ \E ok \in BOOLEAN :
         IF ok
         THEN /\ pc' = "ui"
              /\ surfaces' = surfaces + 1
              /\ surfaceOpen' = TRUE
              /\ agent_tx' = "some"
              /\ UNCHANGED <<result, chan>>
         ELSE /\ Panic
              /\ chan' = "closed"
              /\ UNCHANGED <<surfaces, surfaceOpen, agent_tx>>
    /\ app_channel' = <<>>
    /\ window_tx' = 0
    /\ is_exited' = FALSE
    /\ pressed' = <<>>
    /\ UNCHANGED <<channels, closeReqs>>
    /\ UNCHANGED busVars
    /\ UNCHANGED loopVars

\* App::update: the AppMessage sent on app_channel for a button's Message
update(message) ==
    CASE message = "Confirm" -> "ConfirmPasskey"
      [] message = "Cancel" -> "ConfirmPasskey"

\* a button is clicked while the surface is dispatching: on_click -> update
Click ==
    /\ pc = "ui"
    /\ ~is_exited
    /\ Len(pressed) < MaxClicks
    /\ \E b \in Buttons :
         /\ pressed' = Append(pressed, b)
         /\ app_channel' = Append(app_channel, update(b))
    /\ UNCHANGED <<surfaces, channels, surfaceOpen, agent_tx, chan, window_tx,
                   is_exited, closeReqs>>
    /\ UNCHANGED <<pc, result>>
    /\ UNCHANGED busVars
    /\ UNCHANGED loopVars

\* a handler that writes reject for every AppMessage
decisionAlwaysFalse(msg) ==
    "false"

\* the decision the handler writes for an AppMessage
decision(msg) ==
    IF msg = "Cancel" THEN "false" ELSE "true"

\* a handler that sends through a borrowed sender and leaves agent_tx in place
HandleAppMessageNoTake ==
    /\ pc = "ui"
    /\ ~is_exited
    /\ app_channel # <<>>
    /\ app_channel' = Tail(app_channel)
    /\ chan' = decision(Head(app_channel))
    /\ window_tx' = window_tx + 1
    /\ closeReqs' = Append(closeReqs, chan')
    /\ UNCHANGED <<pc, result, surfaceOpen, agent_tx>>
    /\ UNCHANGED <<surfaces, channels, is_exited, pressed>>
    /\ UNCHANGED busVars
    /\ UNCHANGED loopVars

\* a handler that calls exit() before it writes the decision
HandleAppMessageExitFirst ==
    /\ pc = "ui"
    /\ ~is_exited
    /\ app_channel # <<>>
    /\ app_channel' = Tail(app_channel)
    /\ IF agent_tx = "some"
       THEN /\ window_tx' = window_tx + 1
            /\ closeReqs' = Append(closeReqs, chan)
            /\ agent_tx' = "none"
            /\ chan' = decision(Head(app_channel))
            /\ UNCHANGED <<pc, result, surfaceOpen>>
       ELSE /\ window_tx' = window_tx + 1
            /\ closeReqs' = Append(closeReqs, chan)
            /\ Panic
            /\ surfaceOpen' = FALSE
            /\ UNCHANGED <<agent_tx, chan>>
    /\ UNCHANGED <<surfaces, channels, is_exited, pressed>>
    /\ UNCHANGED busVars
    /\ UNCHANGED loopVars

\* the handler inserted at insert_source, run by event_loop.dispatch for
\* Event::Msg(msg): agent_tx.take().unwrap().send(..); exit(window_tx_2)
HandleAppMessage ==
    /\ pc = "ui"
    /\ ~is_exited
    /\ app_channel # <<>>
    /\ app_channel' = Tail(app_channel)
    /\ IF agent_tx = "some"
       THEN /\ agent_tx' = "none"
            /\ chan' = decision(Head(app_channel))
            /\ window_tx' = window_tx + 1
            /\ closeReqs' = Append(closeReqs, chan')
            /\ UNCHANGED <<pc, result, surfaceOpen>>
       ELSE /\ Panic                  \* take() is None: unwrap panics
            /\ surfaceOpen' = FALSE
            /\ UNCHANGED <<agent_tx, chan, window_tx, closeReqs>>
    /\ UNCHANGED <<surfaces, channels, is_exited, pressed>>
    /\ UNCHANGED busVars
    /\ UNCHANGED loopVars

\* event_loop.dispatch delivers the CloseRequested that exit() queued on
\* window_tx: the window marks the app exited
WindowClose ==
    /\ pc = "ui"
    /\ ~is_exited
    /\ window_tx > 0
    /\ window_tx' = window_tx - 1
    /\ is_exited' = TRUE
    /\ UNCHANGED <<surfaces, channels, surfaceOpen, agent_tx, chan, app_channel,
                   pressed, closeReqs>>
    /\ UNCHANGED <<pc, result>>
    /\ UNCHANGED busVars
    /\ UNCHANGED loopVars

\* the window is closed from outside (compositor, operator closing it):
\* app.is_exited becomes true although no button was handled
SurfaceTerminated ==
    /\ pc = "ui"
    /\ ~is_exited
    /\ is_exited' = TRUE
    /\ UNCHANGED <<surfaces, channels, surfaceOpen, agent_tx, chan, app_channel,
                   window_tx, pressed, closeReqs>>
    /\ UNCHANGED <<pc, result>>
    /\ UNCHANGED busVars
    /\ UNCHANGED loopVars

\* a return that leaves the window alive
LaunchUiReturnLeak ==
    /\ pc = "ui"
    /\ is_exited
    /\ pc' = "await_rx"
    /\ agent_tx' = "none"
    /\ chan' = IF agent_tx = "some" THEN "closed" ELSE chan
    /\ app_channel' = <<>>
    /\ window_tx' = 0
    /\ UNCHANGED <<surfaces, channels, surfaceOpen, is_exited, pressed, closeReqs>>
    /\ UNCHANGED result
    /\ UNCHANGED busVars
    /\ UNCHANGED loopVars

\* loop { if app.is_exited { break; } .. }  Ok(())  -- the locals of
\* launch_ui are dropped, among them the handler and the agent_tx it owns
LaunchUiReturn ==
    /\ pc = "ui"
    /\ is_exited
    /\ pc' = "await_rx"
    /\ surfaceOpen' = FALSE
    /\ agent_tx' = "none"
    /\ chan' = IF agent_tx = "some" THEN "closed" ELSE chan
    /\ app_channel' = <<>>
    /\ window_tx' = 0
    /\ UNCHANGED <<surfaces, channels, is_exited, pressed, closeReqs>>
    /\ UNCHANGED result
    /\ UNCHANGED busVars
    /\ UNCHANGED loopVars

\* let res = agent_rx.await.unwrap(); _ = response.send(res);
AwaitDecision ==
    /\ pc = "await_rx"
    /\ chan # "empty"
    /\ IF chan = "closed"
       THEN Panic /\ UNCHANGED replies   \* RecvError: unwrap panics
       ELSE ResponseSend(chan)
    /\ chan' = "closed"
    /\ UNCHANGED <<surfaces, channels, surfaceOpen, agent_tx, app_channel,
                   window_tx, is_exited, pressed, closeReqs>>
    /\ UNCHANGED <<loopEntered, requests, cur>>
    /\ UNCHANGED busVars

\* a final unregister whose failure is propagated with `?`
UnregisterAgentChecked ==
    /\ pc = "unregister"
    /\ \E ok \in BOOLEAN :
         /\ ManagerCall("UnregisterAgent", ok)
         /\ pc' = "done"
         /\ result' = IF ok THEN "ok" ELSE "err"
    /\ UNCHANGED loopVars
    /\ UNCHANGED uiVars

\* after the loop: _ = bluez.unregister_agent(&agent_path).await; Ok(())
UnregisterAgent ==
    /\ pc = "unregister"
    /\ \E ok \in BOOLEAN : ManagerCall("UnregisterAgent", ok)
    /\ pc' = "done"
    /\ result' = "ok"
    /\ UNCHANGED loopVars
    /\ UNCHANGED uiVars

Next ==
    \/ Startup
    \/ RegisterAgent
    \/ RequestDefaultAgent
    \/ Recv
    \/ ImmediateReply
    \/ NoReply
    \/ ConfirmationConnect
    \/ GetDevice
    \/ LaunchUi
    \/ Click
    \/ HandleAppMessage
    \/ WindowClose
    \/ SurfaceTerminated
    \/ LaunchUiReturn
    \/ AwaitDecision
    \/ UnregisterAgent

Spec == Init /\ [][Next]_vars

TypeOK ==
    /\ pc \in {"connect", "at", "proxy", "register", "reqdefault", "recv", "match",
               "get_device", "name", "ui", "await_rx", "unregister", "done"}
    /\ result \in {"running", "ok", "err", "panic"}
    /\ registered \in BOOLEAN
    /\ Len(requests) <= MaxRequests
    /\ chan \in {"empty", "true", "false", "closed"}
    /\ agent_tx \in {"some", "none"}
    /\ Len(pressed) <= MaxClicks
    /\ \A i \in 1..Len(pressed) : pressed[i] \in Buttons
    /\ \A i \in 1..Len(app_channel) : app_channel[i] \in AppMessages
    /\ \A i \in 1..Len(requests) : requests[i] \in MessageKinds

\* ---- helpers for the properties ----
Called(name, ok) == \E i \in 1..Len(calls) : calls[i] = [name |-> name, ok |-> ok]
RepliesTo(i) == {j \in 1..Len(replies) : replies[j].id = i}
\* main is through with request i
Finished(i) == i < Len(requests) \/ pc \in {"recv", "unregister", "done"}
\* the step is the one response.send of the current request
SendStep == Len(replies') = Len(replies) + 1
LastReply == replies'[Len(replies')]
\* the step runs the app_channel handler
HandlerStep == pc = "ui" /\ ~is_exited /\ app_channel # <<>> /\ app_channel' = Tail(app_channel)

\* C1: every request that carries a reply slot gets exactly one reply once
\* main is through with it, also when two button events reach the surface.
C1_ExactlyOneReply ==
    \A i \in 1..Len(requests) :
        (requests[i] \in ReplySlotKinds /\ Finished(i)) => Cardinality(RepliesTo(i)) = 1

\* C2: when Cancel is what the operator pressed on the surface of a
\* RequestConfirmation, the reply sent for that request is false.
C2_CancelRepliesFalse ==
    [][(SendStep /\ cur.kind = "RequestConfirmation" /\ pressed # <<>>
        /\ \A i \in 1..Len(pressed) : pressed[i] = "Cancel")
       => LastReply.value = "false"]_vars

\* C3: when launch_ui has returned and no decision was written, the next step
\* of main replies false to the pending request and main keeps running.
C3_TerminatedRepliesFalse ==
    [][(pc = "await_rx" /\ chan \notin {"true", "false"})
       => (result' = "running" /\ SendStep /\ LastReply.id = cur.id
           /\ LastReply.value = "false")]_vars

\* C4: once RegisterAgent has succeeded, main does not terminate without a
\* later UnregisterAgent call.
C4_UnregisterOnEveryExit ==
    pc = "done" =>
        \A i \in 1..Len(calls) :
            calls[i] = [name |-> "RegisterAgent", ok |-> TRUE]
            => \E j \in (i + 1)..Len(calls) : calls[j].name = "UnregisterAgent"

\* C5: an AppMessage handled after the decision was written changes nothing:
\* the channel keeps the first decision and main keeps running.
C5_SecondWriteNoOp ==
    [][(HandlerStep /\ agent_tx = "none")
       => (result' = "running" /\ pc' = "ui" /\ chan' = chan)]_vars

\* C6: when main ends without RequestDefaultAgent having succeeded, it ends
\* with an error, the loop was never entered, a successful RegisterAgent is
\* followed by an UnregisterAgent call, and the agent is still registered
\* only if the bus refused that call.
C6_StartupFailureUndone ==
    /\ loopEntered => Called("RequestDefaultAgent", TRUE)
    /\ (pc = "done" /\ ~Called("RequestDefaultAgent", TRUE)) =>
          /\ result = "err"
          /\ ~loopEntered
          /\ \A i \in 1..Len(calls) :
                calls[i] = [name |-> "RegisterAgent", ok |-> TRUE]
                => \E j \in (i + 1)..Len(calls) : calls[j].name = "UnregisterAgent"
          /\ registered => Called("UnregisterAgent", FALSE)

C6_Witness ==
    /\ pc = "done"
    /\ calls = <<[name |-> "RegisterAgent", ok |-> TRUE],
                 [name |-> "RequestDefaultAgent", ok |-> FALSE],
                 [name |-> "UnregisterAgent", ok |-> TRUE]>>
    /\ ~registered

\* C7: response.send calls happen in the order the requests were received,
\* each for the request being handled, and when a request has been taken
\* every earlier request with a reply slot has had its send.
C7_RepliesInOrder ==
    /\ \A j \in 1..Len(replies) :
          /\ replies[j].id \in 1..Len(requests)
          /\ replies[j].kind = requests[replies[j].id]
    /\ \A j \in 1..(Len(replies) - 1) : replies[j].id < replies[j + 1].id
    /\ \A i \in 1..(Len(requests) - 1) :
          requests[i] \in ReplySlotKinds => RepliesTo(i) # {}

C7_Witness ==
    /\ Len(requests) = 2
    /\ Len(replies) = 2
    /\ replies[1].id = 1
    /\ replies[2].id = 2
    /\ "RequestConfirmation" \in {requests[1], requests[2]}

\* C8: a failed device lookup or name read leaves main running and on its
\* way to the confirmation surface.
C8_NameFailureNonFatal ==
    [][(pc \in {"get_device", "name"})
       => (result' = "running" /\ pc' \in {"name", "ui"})]_vars

\* C9: when Confirm is the first button pressed, the handler writes true and
\* then queues CloseRequested, and the reply sent for the request is true.
C9_ConfirmRepliesTrue ==
    /\ \A i \in 1..Len(closeReqs) : closeReqs[i] \in {"true", "false"}
    /\ (pc = "ui" /\ agent_tx = "none" /\ pressed # <<>> /\ pressed[1] = "Confirm") =>
          /\ chan = "true"
          /\ window_tx > 0 \/ is_exited
          /\ closeReqs # <<>> /\ closeReqs[Len(closeReqs)] = "true"
    /\ \A j \in 1..Len(replies) :
          (replies[j].id = cur.id /\ cur.kind = "RequestConfirmation"
           /\ pressed # <<>> /\ pressed[1] = "Confirm")
          => replies[j].value = "true"

C9_Witness ==
    /\ pressed = <<"Confirm">>
    /\ cur.kind = "RequestConfirmation"
    /\ is_exited
    /\ \E j \in 1..Len(replies) :
          replies[j].id = cur.id /\ replies[j].value = "true" /\ replies[j].ok

\* C10: a response.send that fails leaves main running and back at
\* receiver.recv().
C10_SendFailureNonFatal ==
    [][(SendStep /\ ~LastReply.ok) => (pc' = "recv" /\ result' = "running")]_vars

C10_Witness ==
    \E j \in 1..Len(replies) : ~replies[j].ok /\ Len(requests) > replies[j].id

\* C11: the arm of a RequestPasskey or RequestPinCode is one step that sends
\* None for that request and goes back to recv; no surface is opened and no
\* oneshot channel is created.
C11_PasskeyRepliesNone ==
    [][(pc = "match" /\ cur.kind \in ReplyOptKinds)
       => (SendStep /\ LastReply.id = cur.id /\ LastReply.value = "None"
           /\ pc' = "recv" /\ UNCHANGED uiVars)]_vars

C11_Witness ==
    /\ replies # <<>>
    /\ \A j \in 1..Len(replies) :
          replies[j].kind \in ReplyOptKinds /\ replies[j].value = "None"
    /\ {replies[j].kind : j \in 1..Len(replies)} = ReplyOptKinds
    /\ surfaces = 0
    /\ channels = 0

\* C12: the arm of a RequestAuthorization is one step that sends true for
\* that request and goes back to recv; no surface is opened and no button
\* event is involved.
C12_AuthorizationRepliesTrue ==
    [][(pc = "match" /\ cur.kind = "RequestAuthorization")
       => (SendStep /\ LastReply.id = cur.id /\ LastReply.value = "true"
           /\ pc' = "recv" /\ UNCHANGED uiVars)]_vars

C12_Witness ==
    /\ \E j \in 1..Len(replies) :
          /\ replies[j].kind = "RequestAuthorization"
          /\ replies[j].value = "true"
          /\ replies[j].ok
    /\ surfaces = 0
    /\ pressed = <<>>

\* C13: when recv yields None the loop ends at the final unregister; that
\* step calls UnregisterAgent and main returns Ok whatever the call's
\* outcome; main returns Ok by no other route.
C13_CloseThenUnregister ==
    [][/\ (pc = "recv" /\ requests' = requests) => pc' = "unregister"
       /\ pc = "unregister" =>
             /\ Len(calls') = Len(calls) + 1
             /\ calls'[Len(calls')].name = "UnregisterAgent"
             /\ pc' = "done"
             /\ result' = "ok"
       /\ (result' = "ok" /\ result # "ok") => pc = "unregister"]_vars

C13_Witness ==
    /\ pc = "done"
    /\ result = "ok"
    /\ calls[Len(calls)] = [name |-> "UnregisterAgent", ok |-> FALSE]
    /\ registered

\* C14: while the surface is open and awaiting operator input, main is
\* suspended at agent_rx.await and not inside the surface's event loop.
C14_SurfaceRunsConcurrently ==
    (surfaceOpen /\ agent_tx = "some" /\ ~is_exited) => pc = "await_rx"

\* state of the confirmation of the request being handled
ConfStateOf(p, tx, exited) ==
    IF p = "done" THEN "Stopped"
    ELSE IF p = "ui" THEN (IF tx = "some" /\ ~exited THEN "AwaitingInput" ELSE "Decided")
    ELSE IF p = "await_rx" THEN "Closed"
    ELSE "Idle"
ConfState == ConfStateOf(pc, agent_tx, is_exited)
ConfStateNext == ConfStateOf(pc', agent_tx', is_exited')
Confirmations == {i \in 1..Len(requests) : requests[i] = "RequestConfirmation"}

\* C15: a confirmation only moves Idle -> AwaitingInput -> Decided -> Closed
\* (or the process stops); it leaves AwaitingInput by exactly one of a written
\* decision or the surface terminating, a handled button event always leaves
\* it, and each launch opens a new surface on a new, unwritten channel, one
\* per RequestConfirmation.
C15_OneShotStateMachine ==
    [][/\ ConfState = "Idle" => ConfStateNext \in {"Idle", "AwaitingInput", "Stopped"}
       /\ ConfState = "AwaitingInput" => ConfStateNext \in {"AwaitingInput", "Decided"}
       /\ ConfState = "Decided" => ConfStateNext \in {"Decided", "Closed", "Stopped"}
       /\ ConfState = "Closed" => ConfStateNext \in {"Idle", "Stopped"}
       /\ (ConfState = "AwaitingInput" /\ ConfStateNext = "AwaitingInput")
             => (chan = "empty" /\ chan' = "empty")
       /\ (ConfState = "AwaitingInput" /\ HandlerStep) => ConfStateNext = "Decided"
       /\ (ConfState = "AwaitingInput" /\ ConfStateNext = "Decided")
             => ((chan' \in {"true", "false"} /\ ~is_exited')
                 # (is_exited' /\ chan' = "empty"))
       /\ ConfStateNext = "AwaitingInput" /\ ConfState # "AwaitingInput"
             => /\ surfaces' = surfaces + 1
                /\ chan' = "empty"
                /\ app_channel' = <<>>
                /\ pressed' = <<>>
                /\ channels = Cardinality(Confirmations)
                /\ surfaces' <= channels]_vars

C15_Witness ==
    /\ surfaces = 2
    /\ channels = 2
    /\ ConfState = "Closed"
    /\ chan = "true"

\* C16: RegisterAgent is the first agent-manager call and is made only after
\* the object was exposed and the proxy built, RequestDefaultAgent is made
\* only after RegisterAgent succeeded, the registration carries DisplayYesNo,
\* and no event is taken before RequestDefaultAgent succeeded.
C16_StartupOrder ==
    /\ [](/\ pc \in {"connect", "at", "proxy", "register"} => calls = <<>>
          /\ Len(calls) >= 1 => calls[1].name = "RegisterAgent"
          /\ Len(calls) >= 2 => (calls[1].ok /\ calls[2].name = "RequestDefaultAgent")
          /\ registered => capability = "DisplayYesNo"
          /\ loopEntered => (Len(calls) >= 2 /\ calls[2].ok)
          /\ requests # <<>> => loopEntered)
    /\ [][/\ (pc' = "at" /\ pc # "at") => pc = "connect"
          /\ (pc' = "proxy" /\ pc # "proxy") => pc = "at"
          /\ (pc' = "register" /\ pc # "register") => pc = "proxy"
          /\ (pc' = "reqdefault" /\ pc # "reqdefault") => pc = "register"
          /\ ~loopEntered /\ loopEntered' => Called("RequestDefaultAgent", TRUE)]_vars

C16_Witness ==
    /\ calls = <<[name |-> "RegisterAgent", ok |-> TRUE],
                 [name |-> "RequestDefaultAgent", ok |-> TRUE]>>
    /\ registered
    /\ capability = "DisplayYesNo"
    /\ Len(requests) = 1

\* C17: the arm of an AuthorizeService, Cancel, DisplayPasskey, DisplayPinCode
\* or Release event is one step that only moves main back to recv.
C17_NoReplyArmsChangeNothing ==
    [][(pc = "match" /\ cur.kind \in NoReplyKinds)
       => /\ pc' = "recv"
          /\ UNCHANGED <<result, registered, capability, calls, loopEntered,
                         requests, cur, replies>>
          /\ UNCHANGED uiVars]_vars

C17_Witness ==
    /\ Len(requests) = 2
    /\ requests[1] = "Release"
    /\ replies = <<>>
    /\ surfaces = 0
    /\ registered

Unregisters == {j \in 1..Len(calls) : calls[j].name = "UnregisterAgent"}

\* C18: exit() is called with the decision already in the channel, a queued
\* CloseRequested implies a written decision, launch_ui returning after a
\* handled button event leaves the decision in the channel, and main never
\* finds the channel empty when it reads it.
C18_DecisionBeforeClose ==
    /\ [](/\ \A i \in 1..Len(closeReqs) : closeReqs[i] # "empty"
          /\ window_tx > 0 => chan \in {"true", "false"}
          /\ pc = "await_rx" => chan # "empty")
    /\ [][(pc = "ui" /\ agent_tx = "none" /\ pc' = "await_rx")
          => chan' \in {"true", "false"}]_vars

C18_Witness ==
    /\ pc = "await_rx"
    /\ chan = "true"
    /\ closeReqs # <<>>
    /\ pressed # <<>>

\* C19: a surface is opened only when none is open, and while one is open
\* main takes no event and makes no response.send.
C19_OneSurfaceDispatcherBlocked ==
    [][/\ surfaces' > surfaces => (~surfaceOpen /\ surfaces' = surfaces + 1)
       /\ (surfaceOpen \/ surfaceOpen') => (requests' = requests /\ replies' = replies)
       /\ (SendStep /\ cur.kind = "RequestConfirmation") => (is_exited /\ ~surfaceOpen)]_vars

C19_Witness ==
    /\ surfaceOpen
    /\ surfaces = 2
    /\ Len(replies) = 1
    /\ replies[1].kind = "RequestConfirmation"

\* C20: UnregisterAgent is called at most once and only after a successful
\* RegisterAgent; a failed RegisterAgent is the only call of its run; the
\* unregister of the RequestDefaultAgent failure path excludes the loop.
C20_UnregisterAtMostOnce ==
    /\ Cardinality(Unregisters) <= 1
    /\ \A j \in Unregisters :
          \E i \in 1..(j - 1) : calls[i] = [name |-> "RegisterAgent", ok |-> TRUE]
    /\ Called("RegisterAgent", FALSE) =>
          (Len(calls) = 1 /\ pc = "done" /\ result = "err")
    /\ Called("RequestDefaultAgent", FALSE) =>
          (~loopEntered /\ pc = "done" /\ result = "err")

C20_Witness ==
    /\ Len(calls) = 3
    /\ calls[3].name = "UnregisterAgent"
    /\ loopEntered
    /\ Len(requests) = 2
====
